---- MODULE Spec2Model ----
(***************************************************************************)
(* console-mode: the interactive display selection (run_tui_launcher, the  *)
(* TuiApp state machine, the controller reader thread) and the capability  *)
(* detection (detect_capabilities), modelled from src/src/main.rs.         *)
(*                                                                         *)
(* Spec       : one run of run_tui_launcher with its controller reader.    *)
(* SpecLive   : Spec with the selection loop scheduled fairly.             *)
(* SpecCaps   : one call of detect_capabilities over bounded inputs.       *)
(* SpecEnum   : one call of detect_displays over bounded device trees.     *)
(* SpecReader : the reader thread alone over bounded fetch results.        *)
(***************************************************************************)
EXTENDS Integers, Sequences, FiniteSets, TLC

\* ------------------------------------------------------------------ bounds
\* Largest number of connected displays detect_displays returns.
MaxDisplays == 3
\* Cap on the events waiting in the (unbounded) mpsc channel.
MaxChan == 2

\* ------------------------------------------------------------------ options
\* Option<T>: None is the empty tuple, Some(x) the one-element tuple.
None == <<>>
Some(x) == <<x>>
IsSome(o) == o # None
Unwrap(o) == o[1]

\* ------------------------------------------------------------------ state
VARIABLES
    pc,          \* where run_tui_launcher is
    result,      \* "none" while it runs, then "ok" or the call whose error it returned
    displays,    \* Vec<DisplayInfo> from detect_displays
    app,         \* TuiApp
    rawMode,     \* terminal is in raw mode
    altScreen,   \* terminal shows the alternate screen
    rawReleases, \* successful disable_raw_mode calls
    altReleases, \* successful LeaveAlternateScreen calls
    chan,        \* events buffered in the mpsc channel
    rxAlive,     \* the Receiver exists
    readerPc,    \* where the controller reader thread is
    sendFailed,  \* a tx.send of the reader thread has returned Err
    launched,    \* displays handed to launch_with_display, in order
    pre,         \* TuiApp at the start of the last loop iteration
    mid,         \* TuiApp after the controller event of the last iteration
    ctrlEv,      \* Option<InputEvent> taken from the channel in the last iteration
    keyIn,       \* what the keyboard delivered in the last iteration
    run,         \* consecutive equal moves applied since the index was 0
    det,         \* detect_capabilities call: inputs, phase and result
    cat,         \* detect_displays call: device tree, phase and result
    rdr          \* reader thread run on its own: what it fetches, phase and result

tuiVars == <<pc, result, displays, app, rawMode, altScreen, rawReleases, altReleases,
             chan, rxAlive, readerPc, sendFailed, launched, pre, mid, ctrlEv, keyIn, run>>
vars == <<pc, result, displays, app, rawMode, altScreen, rawReleases, altReleases,
          chan, rxAlive, readerPc, sendFailed, launched, pre, mid, ctrlEv, keyIn, run, det, cat, rdr>>

\* ------------------------------------------------------------------ data
\* enum InputEvent
InputEvent == {"Up", "Down", "Select", "Quit"}

\* struct DisplayInfo, reduced to the fields the selection and detection read.
DisplayInfo(i) == [connector_name |-> i, width |-> IF i % 2 = 1 THEN 1920 ELSE 3840]

\* The vector detect_displays builds for n connected connectors.
DisplayList(n) == [i \in 1..n |-> DisplayInfo(i)]

\* The TuiApp value before TuiApp::new has run.
NoApp == [list_state |-> None, should_quit |-> FALSE, selected_display |-> None]

\* ------------------------------------------------------------------ TuiApp
\* TuiApp::new: index 0 is highlighted iff the list is not empty.
TuiApp_new(ds) ==
    [list_state |-> IF Len(ds) # 0 THEN Some(0) ELSE None,
     should_quit |-> FALSE,
     selected_display |-> None]

\* A next() that forgets the wraparound.
NextNoWrap(a, ds) ==
    IF Len(ds) = 0 THEN a
    ELSE [a EXCEPT !.list_state =
            IF IsSome(a.list_state) THEN Some(Unwrap(a.list_state) + 1) ELSE Some(0)]

\* A next() without the early return on an empty list.
NextNoEmptyGuard(a, ds) ==
    [a EXCEPT !.list_state =
        IF IsSome(a.list_state)
        THEN (IF Unwrap(a.list_state) >= Len(ds) - 1 THEN Some(0)
              ELSE Some(Unwrap(a.list_state) + 1))
        ELSE Some(0)]

\* TuiApp::next
TuiApp_next(a, ds) ==
    IF Len(ds) = 0 THEN a
    ELSE [a EXCEPT !.list_state =
            IF IsSome(a.list_state)
            THEN (IF Unwrap(a.list_state) >= Len(ds) - 1 THEN Some(0)
                  ELSE Some(Unwrap(a.list_state) + 1))
            ELSE Some(0)]

\* A previous() that stops at the first entry instead of wrapping.
PreviousClamp(a, ds) ==
    IF Len(ds) = 0 THEN a
    ELSE [a EXCEPT !.list_state =
            IF IsSome(a.list_state)
            THEN (IF Unwrap(a.list_state) = 0 THEN Some(0)
                  ELSE Some(Unwrap(a.list_state) - 1))
            ELSE Some(0)]

\* TuiApp::previous
TuiApp_previous(a, ds) ==
    IF Len(ds) = 0 THEN a
    ELSE [a EXCEPT !.list_state =
            IF IsSome(a.list_state)
            THEN (IF Unwrap(a.list_state) = 0 THEN Some(Len(ds) - 1)
                  ELSE Some(Unwrap(a.list_state) - 1))
            ELSE Some(0)]

\* A select() that always takes the first display.
SelectFirst(a, ds) ==
    IF IsSome(a.list_state) /\ Unwrap(a.list_state) < Len(ds)
    THEN [a EXCEPT !.selected_display = Some(ds[1]), !.should_quit = TRUE]
    ELSE a

\* TuiApp::select (the vector is indexed from 0 in the source, from 1 here)
TuiApp_select(a, ds) ==
    IF IsSome(a.list_state) /\ Unwrap(a.list_state) < Len(ds)
    THEN [a EXCEPT !.selected_display = Some(ds[Unwrap(a.list_state) + 1]),
                   !.should_quit = TRUE]
    ELSE a

\* A match in which Quit also forgets the chosen display.
ApplyEventQuitClears(a, ds, ev) ==
    CASE ev = "Up"     -> TuiApp_previous(a, ds)
      [] ev = "Down"   -> TuiApp_next(a, ds)
      [] ev = "Select" -> TuiApp_select(a, ds)
      [] ev = "Quit"   -> [a EXCEPT !.should_quit = TRUE, !.selected_display = None]

\* A match in which Quit does nothing.
ApplyEventQuitIgnored(a, ds, ev) ==
    CASE ev = "Up"     -> TuiApp_previous(a, ds)
      [] ev = "Down"   -> TuiApp_next(a, ds)
      [] ev = "Select" -> TuiApp_select(a, ds)
      [] ev = "Quit"   -> a

\* The match on an InputEvent, the same for both sources.
ApplyEvent(a, ds, ev) ==
    CASE ev = "Up"     -> TuiApp_previous(a, ds)
      [] ev = "Down"   -> TuiApp_next(a, ds)
      [] ev = "Select" -> TuiApp_select(a, ds)
      [] ev = "Quit"   -> [a EXCEPT !.should_quit = TRUE]

\* ------------------------------------------------------------------ keyboard
KeyCodes == {"Up", "k", "Down", "j", "Enter", "Space", "Esc", "q", "x"}
KeyKinds == {"Press", "Release"}

\* What event::poll / event::read deliver in one iteration: nothing within the
\* timeout, an event that is no key event, or a key event.
NoKey == [event |-> "NoEvent", kind |-> "-", code |-> "-"]
KeyInputs ==
    {NoKey, [event |-> "Resize", kind |-> "-", code |-> "-"]}
    \cup [event : {"Key"}, kind : KeyKinds, code : KeyCodes]

\* A key mapping that does not look at the kind of the key event.
KeyEventAnyKind(k) ==
    IF k.event = "Key"
    THEN CASE k.code \in {"Up", "k"}        -> Some("Up")
           [] k.code \in {"Down", "j"}      -> Some("Down")
           [] k.code \in {"Enter", "Space"} -> Some("Select")
           [] k.code \in {"Esc", "q"}       -> Some("Quit")
           [] OTHER                         -> None
    ELSE None

\* The InputEvent a keyboard input stands for, if any.
KeyEvent(k) ==
    IF k.event = "Key" /\ k.kind = "Press"
    THEN CASE k.code \in {"Up", "k"}        -> Some("Up")
           [] k.code \in {"Down", "j"}      -> Some("Down")
           [] k.code \in {"Enter", "Space"} -> Some("Select")
           [] k.code \in {"Esc", "q"}       -> Some("Quit")
           [] OTHER                         -> None
    ELSE None

\* ------------------------------------------------------------------ channel
\* A try_recv that hands out the newest buffered event.
TryRecvNewest(ch, senderGone) ==
    IF ch # <<>> THEN [ok |-> TRUE, val |-> ch[Len(ch)]]
    ELSE [ok |-> FALSE, val |-> IF senderGone THEN "Disconnected" ELSE "Empty"]

\* Receiver::try_recv: the oldest buffered event, else Empty or Disconnected.
TryRecv(ch, senderGone) ==
    IF ch # <<>> THEN [ok |-> TRUE, val |-> Head(ch)]
    ELSE [ok |-> FALSE, val |-> IF senderGone THEN "Disconnected" ELSE "Empty"]

\* A loop that takes a disconnected channel for a Quit.
ReceivedQuitOnDisconnect(ch, senderGone) ==
    IF TryRecv(ch, senderGone).ok THEN Some(TryRecv(ch, senderGone).val)
    ELSE IF TryRecv(ch, senderGone).val = "Disconnected" THEN Some("Quit")
    ELSE None

\* The controller event an iteration applies: if let Ok(input) = rx.try_recv().
Received(ch, senderGone) ==
    IF TryRecv(ch, senderGone).ok THEN Some(TryRecv(ch, senderGone).val) ELSE None

\* ------------------------------------------------------------------ loop body
ApplyOpt(a, ds, o) == IF IsSome(o) THEN ApplyEvent(a, ds, Unwrap(o)) ELSE a

\* An iteration that handles the keyboard before the controller.
HandleInputKeyboardFirst(a, ds, c, k) == ApplyOpt(ApplyOpt(a, ds, KeyEvent(k)), ds, c)

\* The input handling of one iteration: controller event, then key event.
HandleInput(a, ds, c, k) == ApplyOpt(ApplyOpt(a, ds, c), ds, KeyEvent(k))

\* History of moves: run.n moves of run.dir in a row, the first from index 0.
NoRun == [dir |-> "-", n |-> 0]
RunStep(r, ds, o, before) ==
    IF ~IsSome(o) THEN r
    ELSE IF Unwrap(o) \in {"Up", "Down"}
         THEN IF r.dir = Unwrap(o) /\ r.n >= 1 /\ r.n < Len(ds)
              THEN [r EXCEPT !.n = r.n + 1]
              ELSE IF before.list_state = Some(0)
                   THEN [dir |-> Unwrap(o), n |-> 1]
                   ELSE NoRun
         ELSE NoRun

\* ------------------------------------------------------------------ detection
\* Text is a sequence of tokens: the characters the refresh-rate pattern reads
\* ("0".."9", ".", " ", "H", "z", "x" for any other character) and the marker
\* phrases of the capability scan, each one token.
DigitChars == <<"0", "1", "2", "3", "4", "5", "6", "7", "8", "9">>
IsDigit(c) == \E n \in 1..10 : DigitChars[n] = c
DigitVal(c) == (CHOOSE n \in 1..10 : DigitChars[n] = c) - 1
IsSpace(c) == c \in {" ", "\n"}

\* u32::MAX as decimal digits (TLC's integers end at 2^31 - 1).
U32MaxDigits == <<4, 2, 9, 4, 9, 6, 7, 2, 9, 5>>

RECURSIVE StripZeros(_)
StripZeros(ds) == IF Len(ds) > 1 /\ ds[1] = 0 THEN StripZeros(Tail(ds)) ELSE ds

RECURSIVE LexGreater(_, _)
LexGreater(a, b) ==
    IF a = <<>> THEN FALSE
    ELSE IF a[1] # b[1] THEN a[1] > b[1]
    ELSE LexGreater(Tail(a), Tail(b))

RECURSIVE DigitsValue(_, _)
DigitsValue(ds, acc) ==
    IF ds = <<>> THEN acc ELSE DigitsValue(Tail(ds), 10 * acc + ds[1])

\* str::parse::<u32>: an optional "+", then one or more digits, no overflow.
\* (The inputs used here hold no value between 2^31 and u32::MAX.)
ParseU32(str) ==
    LET body == IF str # <<>> /\ str[1] = "+" THEN Tail(str) ELSE str
    IN IF body = <<>> \/ \E i \in 1..Len(body) : ~IsDigit(body[i]) THEN None
       ELSE LET ds == StripZeros([i \in 1..Len(body) |-> DigitVal(body[i])])
            IN IF Len(ds) > 10 \/ (Len(ds) = 10 /\ LexGreater(ds, U32MaxDigits)) THEN None
               ELSE Some(DigitsValue(ds, 0))

\* The first position at or after i that holds no digit / no white space.
RECURSIVE DigitsEnd(_, _)
DigitsEnd(t, i) == IF i <= Len(t) /\ IsDigit(t[i]) THEN DigitsEnd(t, i + 1) ELSE i
RECURSIVE SpacesEnd(_, _)
SpacesEnd(t, i) == IF i <= Len(t) /\ IsSpace(t[i]) THEN SpacesEnd(t, i + 1) ELSE i
HzAt(t, i) == i + 1 <= Len(t) /\ t[i] = "H" /\ t[i + 1] = "z"

\* Regex (\d+)\.?\d*\s*Hz matched at position i: the position after the match,
\* or 0 when there is none. The group always takes the whole run of digits.
MatchEnd(t, i) ==
    IF ~(i <= Len(t) /\ IsDigit(t[i])) THEN 0
    ELSE LET d1 == DigitsEnd(t, i)
             sA == SpacesEnd(t, DigitsEnd(t, d1 + 1))
             sB == SpacesEnd(t, d1)
         IN IF d1 <= Len(t) /\ t[d1] = "." /\ HzAt(t, sA) THEN sA + 2
            ELSE IF HzAt(t, sB) THEN sB + 2
            ELSE 0

\* The same loop without the 500 Hz ceiling.
RECURSIVE MaxRateNoCeiling(_, _, _)
MaxRateNoCeiling(t, i, max_rate) ==
    IF i > Len(t) THEN max_rate
    ELSE IF MatchEnd(t, i) = 0 THEN MaxRateNoCeiling(t, i + 1, max_rate)
    ELSE LET rate == ParseU32(SubSeq(t, i, DigitsEnd(t, i) - 1))
         IN MaxRateNoCeiling(t, MatchEnd(t, i),
                    IF IsSome(rate) /\ Unwrap(rate) > max_rate
                    THEN Unwrap(rate) ELSE max_rate)

\* The loop over re.captures_iter(edid_text): the largest reading above the
\* running maximum and at most 500.
RECURSIVE MaxRate(_, _, _)
MaxRate(t, i, max_rate) ==
    IF i > Len(t) THEN max_rate
    ELSE IF MatchEnd(t, i) = 0 THEN MaxRate(t, i + 1, max_rate)
    ELSE LET rate == ParseU32(SubSeq(t, i, DigitsEnd(t, i) - 1))
         IN MaxRate(t, MatchEnd(t, i),
                    IF IsSome(rate) /\ Unwrap(rate) > max_rate /\ Unwrap(rate) <= 500
                    THEN Unwrap(rate) ELSE max_rate)

\* str::contains for a marker phrase.
Contains(t, marker) == \E i \in 1..Len(t) : t[i] = marker

VrrPatterns == {"Variable Refresh Rate", "FreeSync", "G-SYNC Compatible", "VESA VRR",
                "Vendor-Specific Data Block (AMD)"}
HdrPatterns == {"HDR Static Metadata", "HDR10", "SMPTE ST 2084"}

\* Defaults that take 2560 itself for a narrow display.
DefaultCapabilitiesAbove(display) ==
    [vrr |-> FALSE, hdr |-> FALSE,
     max_refresh_rate |-> IF display.width > 2560 THEN 144 ELSE 60,
     max_bpc |-> 8]

\* fn default_capabilities
default_capabilities(display) ==
    [vrr |-> FALSE, hdr |-> FALSE,
     max_refresh_rate |-> IF display.width >= 2560 THEN 144 ELSE 60,
     max_bpc |-> 8]

\* A colour-depth check that tests the 10-bit markers first.
MaxBpcTenFirst(edid_text) ==
    IF Contains(edid_text, "10 bits per")
       \/ Contains(edid_text, "Bits per primary color channel: 10") THEN 10
    ELSE IF Contains(edid_text, "12 bits per")
            \/ Contains(edid_text, "Bits per primary color channel: 12") THEN 12
    ELSE 8

\* The colour-depth check of parse_edid_capabilities.
MaxBpc(edid_text) ==
    IF Contains(edid_text, "12 bits per")
       \/ Contains(edid_text, "Bits per primary color channel: 12") THEN 12
    ELSE IF Contains(edid_text, "10 bits per")
            \/ Contains(edid_text, "Bits per primary color channel: 10") THEN 10
    ELSE 8

\* fn parse_edid_capabilities
parse_edid_capabilities(edid_text, display) ==
    LET max_rate == MaxRate(edid_text, 1, 60)
    IN [vrr |-> \E p \in VrrPatterns : Contains(edid_text, p),
        hdr |-> \E p \in HdrPatterns : Contains(edid_text, p),
        max_bpc |-> MaxBpc(edid_text),
        max_refresh_rate |->
            IF max_rate < 60 THEN (IF display.width >= 2560 THEN 144 ELSE 60)
            ELSE max_rate]

\* Overrides in which the disable flag is tested before the force flag.
ApplyOverridesDisableFirst(caps, args) ==
    [vrr |-> IF args.no_vrr THEN FALSE ELSE IF args.force_vrr THEN TRUE ELSE caps.vrr,
     hdr |-> IF args.no_hdr THEN FALSE ELSE IF args.force_hdr THEN TRUE ELSE caps.hdr,
     max_refresh_rate |->
        IF IsSome(args.refresh_rate) THEN Unwrap(args.refresh_rate)
        ELSE caps.max_refresh_rate,
     max_bpc |-> caps.max_bpc]

\* The user overrides at the end of detect_capabilities.
ApplyOverrides(caps, args) ==
    [vrr |-> IF args.force_vrr THEN TRUE ELSE IF args.no_vrr THEN FALSE ELSE caps.vrr,
     hdr |-> IF args.force_hdr THEN TRUE ELSE IF args.no_hdr THEN FALSE ELSE caps.hdr,
     max_refresh_rate |->
        IF IsSome(args.refresh_rate) THEN Unwrap(args.refresh_rate)
        ELSE caps.max_refresh_rate,
     max_bpc |-> caps.max_bpc]

Ok(v) == [ok |-> TRUE, val |-> v]
Err == [ok |-> FALSE, val |-> "error"]

\* A detection whose safe mode answers with the geometry defaults.
DetectSafeModeByGeometry(display, args, edid) ==
    IF args.safe_mode THEN Ok(default_capabilities(display))
    ELSE IF edid.file = "absent" THEN Ok(default_capabilities(display))
    ELSE IF edid.file = "unreadable" THEN Err
    ELSE IF edid.file = "empty" THEN Ok(default_capabilities(display))
    ELSE Ok(ApplyOverrides(
                IF edid.decoder = "ran"
                THEN parse_edid_capabilities(edid.text, display)
                ELSE default_capabilities(display),
                args))

\* fn detect_capabilities. edid.file is the state of the connector's edid
\* file; edid.decoder is "failed" when spawning edid-decode or writing to it
\* returned Err, else "ran"; edid.status is its exit status, which the code
\* never reads; edid.text is what it wrote to stdout.
detect_capabilities(display, args, edid) ==
    IF args.safe_mode
    THEN Ok([vrr |-> FALSE, hdr |-> FALSE, max_refresh_rate |-> 60, max_bpc |-> 8])
    ELSE IF edid.file = "absent" THEN Ok(default_capabilities(display))
    ELSE IF edid.file = "unreadable" THEN Err
    ELSE IF edid.file = "empty" THEN Ok(default_capabilities(display))
    ELSE Ok(ApplyOverrides(
                IF edid.decoder = "ran"
                THEN parse_edid_capabilities(edid.text, display)
                ELSE default_capabilities(display),
                args))

\* The refresh-rate part of apply_sunshine_env_fallbacks: SUNSHINE_CLIENT_FPS
\* is used when no rate was given and the variable parses as a u32.
apply_sunshine_env_fallbacks(args, env_fps) ==
    IF ~IsSome(args.refresh_rate) /\ IsSome(env_fps) /\ IsSome(ParseU32(Unwrap(env_fps)))
    THEN [args EXCEPT !.refresh_rate = ParseU32(Unwrap(env_fps))]
    ELSE args

\* Decoded texts the detection is run on.
EdidTexts ==
    { <<>>,
      <<"x", " ", "5", "9", ".", "9", "4", " ", "H", "z">>,
      <<"1", "4", "4", ".", "0", "0", " ", "H", "z", "\n", "1", "2", "0", "0", " ", "H", "z">>,
      <<"1", "2", "0", "0", "H", "z", " ", "1", "4", "4", "H", "z">>,
      <<"FreeSync", "\n", "7", "5", " ", "H", "z">>,
      <<"HDR10", "12 bits per", "10 bits per", "2", "4", "0", ".", "H", "z">>,
      <<"6", "0", ".", "5", ".", "1", "4", "4", " ", "H", "z">>,
      <<"9", "9", "9", "9", "9", "9", "9", "9", "9", "9", "9", " ", "H", "z", "1", "2", "0", "H", "z">>,
      <<"Bits per primary color channel: 10", "5", "0", "0", " ", "H", "z", "5", "0", "1", " ", "H", "z">>,
      <<"2", ".", "4", " ", "x", "H", "z", "VESA VRR", "SMPTE ST 2084">>,
      <<"Bits per primary color channel: 12", "\n", "6", "1", " ", "H", "z">> }

EdidInputs ==
    { [file |-> f, decoder |-> "ran", status |-> "zero", text |-> <<>>] :
        f \in {"absent", "unreadable", "empty"} }
    \cup { [file |-> "data", decoder |-> "failed", status |-> "none", text |-> <<>>] }
    \cup { [file |-> "data", decoder |-> "ran", status |-> "nonzero", text |-> <<>>] }
    \cup { [file |-> "data", decoder |-> "ran", status |-> "zero", text |-> t] : t \in EdidTexts }

\* Values of SUNSHINE_CLIENT_FPS: unset, or a string.
EnvFps ==
    { None, Some(<<>>), Some(<<"x">>), Some(<<"9", "0">>), Some(<<"0">>),
      Some(<<"4", "2", "9", "4", "9", "6", "7", "2", "9", "6">>) }

ArgsInputs ==
    [safe_mode : BOOLEAN, force_vrr : BOOLEAN, no_vrr : BOOLEAN,
     force_hdr : BOOLEAN, no_hdr : BOOLEAN,
     refresh_rate : {None, Some(0), Some(30), Some(120)}]

Widths == {1920, 2559, 2560, 3840}

NoDet == [phase |-> "off"]

\* main: apply_sunshine_env_fallbacks(&mut args)
ApplySunshineEnvFallbacks ==
    /\ det.phase = "args"
    /\ det' = [det EXCEPT !.phase = "ready",
                          !.args = apply_sunshine_env_fallbacks(det.args, det.env_fps)]
    /\ UNCHANGED <<tuiVars, cat, rdr>>

\* launch_with_display: detect_capabilities(display, &args)
DetectCapabilities ==
    /\ det.phase = "ready"
    /\ det' = [det EXCEPT !.phase = "done",
                          !.out = detect_capabilities(det.display, det.args, det.edid)]
    /\ UNCHANGED <<tuiVars, cat, rdr>>

\* ------------------------------------------------------------------ display catalog
\* Most directory entries a device tree holds.
MaxEntries == 2

\* str::trim: white space off both ends.
RECURSIVE TrimLeft(_)
TrimLeft(t) == IF t # <<>> /\ IsSpace(t[1]) THEN TrimLeft(Tail(t)) ELSE t
RECURSIVE TrimRight(_)
TrimRight(t) ==
    IF t # <<>> /\ IsSpace(t[Len(t)]) THEN TrimRight(SubSeq(t, 1, Len(t) - 1)) ELSE t
Trim(t) == TrimRight(TrimLeft(t))

\* str::split('x'): the parts between the separators, at least one part.
RECURSIVE Split(_, _, _)
Split(t, sep, part) ==
    IF t = <<>> THEN <<part>>
    ELSE IF t[1] = sep THEN <<part>> \o Split(Tail(t), sep, <<>>)
    ELSE Split(Tail(t), sep, Append(part, t[1]))

\* fn parse_resolution
parse_resolution(res) ==
    LET parts == Split(Trim(res), "x", <<>>)
    IN IF Len(parts) # 2 THEN Err
       ELSE IF ~IsSome(ParseU32(parts[1])) THEN Err
       ELSE IF ~IsSome(ParseU32(parts[2])) THEN Err
       ELSE Ok(<<Unwrap(ParseU32(parts[1])), Unwrap(ParseU32(parts[2]))>>)

\* A directory name is a connector's: starts_with("card") && contains('-').
IsConnectorName(name) == name # <<>> /\ name[1] = "card" /\ \E i \in 1..Len(name) : name[i] = "-"

\* The loop of detect_displays over the entries of /sys/class/drm: every `?`
\* leaves the function with the error.
RECURSIVE Walk(_, _)
Walk(entries, found) ==
    IF entries = <<>> THEN Ok(found)
    ELSE LET e == Head(entries)
             rest == Tail(entries)
         IN IF ~e.entry_ok THEN Err
            ELSE IF ~IsConnectorName(e.name) THEN Walk(rest, found)
            ELSE IF e.status.state = "missing" THEN Walk(rest, found)
            ELSE IF e.status.state = "unreadable" THEN Err
            ELSE IF Trim(e.status.text) # <<"connected">> THEN Walk(rest, found)
            ELSE IF e.modes.state = "missing" THEN Walk(rest, found)
            ELSE IF e.modes.state = "unreadable" THEN Err
            ELSE IF e.modes.lines = <<>> THEN Walk(rest, found)
            ELSE IF ~parse_resolution(e.modes.lines[1]).ok THEN Err
            ELSE Walk(rest, Append(found,
                    [connector_name |-> e.name,
                     resolution |-> e.modes.lines[1],
                     width |-> parse_resolution(e.modes.lines[1]).val[1],
                     height |-> parse_resolution(e.modes.lines[1]).val[2]]))

\* fn detect_displays
detect_displays(tree) == IF ~tree.root_ok THEN Err ELSE Walk(tree.entries, <<>>)

\* Files of a connector directory: missing, unreadable, or read with content.
FileMissing == [state |-> "missing", text |-> <<>>, lines |-> <<>>]
FileUnreadable == [state |-> "unreadable", text |-> <<>>, lines |-> <<>>]
StatusFile(word) == [state |-> "read", text |-> <<word, "\n">>, lines |-> <<>>]
ModesFile(ls) == [state |-> "read", text |-> <<>>, lines |-> ls]

Mode1080 == <<"1", "9", "2", "0", "x", "1", "0", "8", "0">>
Mode2160 == <<"3", "8", "4", "0", "x", "2", "1", "6", "0">>
Mode1080i == <<"1", "9", "2", "0", "x", "1", "0", "8", "0", "i">>
ModeNoX == <<"1", "9", "2", "0">>

Connector(port, status, modes) ==
    [entry_ok |-> TRUE, name |-> <<"card", "1", "-", port>>, status |-> status, modes |-> modes]

\* The directory entries the enumeration is run on.
TreeEntries ==
    { Connector("HDMI-A-1", StatusFile("connected"), ModesFile(<<Mode1080, Mode2160>>)),
      Connector("DP-1", StatusFile("connected"), ModesFile(<<Mode2160>>)),
      Connector("DP-2", StatusFile("disconnected"), ModesFile(<<>>)),
      Connector("DP-3", FileMissing, FileMissing),
      Connector("DP-4", FileUnreadable, ModesFile(<<Mode1080>>)),
      Connector("DP-5", StatusFile("connected"), FileMissing),
      Connector("DP-6", StatusFile("connected"), FileUnreadable),
      Connector("DP-7", StatusFile("connected"), ModesFile(<<>>)),
      Connector("DP-8", StatusFile("connected"), ModesFile(<<Mode1080i, Mode1080>>)),
      Connector("DP-9", StatusFile("connected"), ModesFile(<<ModeNoX>>)),
      [entry_ok |-> TRUE, name |-> <<"card", "1">>,
       status |-> FileMissing, modes |-> FileMissing],
      [entry_ok |-> TRUE, name |-> <<"version">>,
       status |-> FileMissing, modes |-> FileMissing],
      [entry_ok |-> FALSE, name |-> <<>>, status |-> FileMissing, modes |-> FileMissing] }

RECURSIVE SeqsUpTo(_, _)
SeqsUpTo(S, n) ==
    IF n = 0 THEN {<<>>}
    ELSE SeqsUpTo(S, n - 1) \cup {Append(q, e) : q \in SeqsUpTo(S, n - 1), e \in S}

Trees == [root_ok : BOOLEAN, entries : SeqsUpTo(TreeEntries, MaxEntries)]

NoCat == [phase |-> "off"]

\* run_tui_launcher / main: detect_displays()
EnumerateDisplays ==
    /\ cat.phase = "scan"
    /\ cat' = [cat EXCEPT !.phase = "done", !.out = detect_displays(cat.tree)]
    /\ UNCHANGED <<tuiVars, det, rdr>>

\* ------------------------------------------------------------------ reader thread
Buttons == {"BTN_DPAD_UP", "BTN_DPAD_DOWN", "BTN_SOUTH", "BTN_WEST", "BTN_EAST", "BTN_NORTH"}

\* The evdev events the reader thread can fetch from the device.
RawEvents ==
    [kind : {"Key"}, code : Buttons, value : {0, 1, 2}]
    \cup [kind : {"AbsAxis"}, code : {"ABS_HAT0Y", "ABS_X"}, value : {-1, 0, 1}]
    \cup {[kind |-> "Synchronization", code |-> "SYN_REPORT", value |-> 0]}

\* A button mapping that only leaves out releases (value 0).
ButtonInputAnyValue(ev) ==
    IF ev.kind = "Key" /\ ev.value # 0
    THEN CASE ev.code = "BTN_DPAD_UP"   -> Some("Up")
           [] ev.code = "BTN_DPAD_DOWN" -> Some("Down")
           [] ev.code = "BTN_SOUTH"     -> Some("Select")
           [] ev.code = "BTN_WEST"      -> Some("Select")
           [] ev.code = "BTN_EAST"      -> Some("Quit")
           [] OTHER                     -> None
    ELSE None

\* The InputEvent of a key event: presses (value 1) of the mapped buttons only.
ButtonInput(ev) ==
    IF ev.kind = "Key" /\ ev.value = 1
    THEN CASE ev.code = "BTN_DPAD_UP"   -> Some("Up")
           [] ev.code = "BTN_DPAD_DOWN" -> Some("Down")
           [] ev.code = "BTN_SOUTH"     -> Some("Select")
           [] ev.code = "BTN_WEST"      -> Some("Select")
           [] ev.code = "BTN_EAST"      -> Some("Quit")
           [] OTHER                     -> None
    ELSE None

\* The InputEvent of an absolute-axis event: the vertical hat off its centre.
HatInput(ev) ==
    IF ev.kind = "AbsAxis" /\ ev.code = "ABS_HAT0Y"
    THEN (IF ev.value < 0 THEN Some("Up")
          ELSE IF ev.value > 0 THEN Some("Down")
          ELSE None)
    ELSE None

\* find_gamepad_devices, then the check for an empty result.
ReaderScan ==
    /\ readerPc = "scan"
    /\ \E found \in BOOLEAN : readerPc' = IF found THEN "open" ELSE "exited"
    /\ UNCHANGED <<pc, result, displays, app, rawMode, altScreen, rawReleases, altReleases,
                   chan, rxAlive, sendFailed, launched, pre, mid, ctrlEv, keyIn, run, det, cat, rdr>>

\* Device::open of the first gamepad found.
ReaderOpen ==
    /\ readerPc = "open"
    /\ \E ok \in BOOLEAN : readerPc' = IF ok THEN "loop" ELSE "exited"
    /\ UNCHANGED <<pc, result, displays, app, rawMode, altScreen, rawReleases, altReleases,
                   chan, rxAlive, sendFailed, launched, pre, mid, ctrlEv, keyIn, run, det, cat, rdr>>

\* device.fetch_events() returns Err: log, sleep 100 ms, loop again.
ReaderFetchErr ==
    /\ readerPc = "loop"
    /\ UNCHANGED vars

\* One fetched event that is a button event: a mapped press is sent, and a
\* failed send ends the thread.
ReaderButton ==
    /\ readerPc = "loop"
    /\ \E ev \in RawEvents :
        /\ ev.kind = "Key"
        /\ IF IsSome(ButtonInput(ev))
           THEN IF rxAlive
                THEN /\ Len(chan) < MaxChan
                     /\ chan' = Append(chan, Unwrap(ButtonInput(ev)))
                     /\ UNCHANGED <<readerPc, sendFailed>>
                ELSE /\ sendFailed' = TRUE
                     /\ readerPc' = "exited"
                     /\ UNCHANGED chan
           ELSE UNCHANGED <<chan, readerPc, sendFailed>>
    /\ UNCHANGED <<pc, result, displays, app, rawMode, altScreen, rawReleases, altReleases,
                   rxAlive, launched, pre, mid, ctrlEv, keyIn, run, det, cat, rdr>>

\* One fetched event that is an axis event: a hat movement is sent with
\* `let _ = tx.send(input)`, the result of the send is dropped.
ReaderAxis ==
    /\ readerPc = "loop"
    /\ \E ev \in RawEvents :
        /\ ev.kind = "AbsAxis"
        /\ IF IsSome(HatInput(ev))
           THEN IF rxAlive
                THEN /\ Len(chan) < MaxChan
                     /\ chan' = Append(chan, Unwrap(HatInput(ev)))
                     /\ UNCHANGED <<readerPc, sendFailed>>
                ELSE /\ sendFailed' = TRUE
                     /\ UNCHANGED <<chan, readerPc>>
           ELSE UNCHANGED <<chan, readerPc, sendFailed>>
    /\ UNCHANGED <<pc, result, displays, app, rawMode, altScreen, rawReleases, altReleases,
                   rxAlive, launched, pre, mid, ctrlEv, keyIn, run, det, cat, rdr>>

\* One fetched event of any other kind: logged at most.
ReaderOther ==
    /\ readerPc = "loop"
    /\ \E ev \in RawEvents : ev.kind \notin {"Key", "AbsAxis"}
    /\ UNCHANGED vars

\* ------------------------------------------------------------------ reader thread alone
\* Most fetch_events() calls of one observed run of the thread.
MaxFetches == 3

\* What device.fetch_events() returns: Err, or one event.
NoRaw == [kind |-> "-", code |-> "-", value |-> 0]
FetchErr == [ok |-> FALSE, ev |-> NoRaw]
Fetched(ev) == [ok |-> TRUE, ev |-> ev]

\* The thread where its loop starts: nothing sent yet.
ReaderAtLoop == [pc |-> "loop", sent |-> <<>>, send_failed |-> FALSE]
ReaderExited == [pc |-> "exited", sent |-> <<>>, send_failed |-> FALSE]

\* A loop body that gives up when fetch_events() fails.
ReaderHandleExitOnErr(st, item, alive) ==
    IF st.pc # "loop" THEN st
    ELSE IF ~item.ok THEN [st EXCEPT !.pc = "exited"]
    ELSE IF IsSome(ButtonInput(item.ev))
         THEN IF alive
              THEN [st EXCEPT !.sent = Append(@, [ev |-> item.ev,
                                                  input |-> Unwrap(ButtonInput(item.ev))])]
              ELSE [st EXCEPT !.pc = "exited", !.send_failed = TRUE]
    ELSE IF IsSome(HatInput(item.ev))
         THEN IF alive
              THEN [st EXCEPT !.sent = Append(@, [ev |-> item.ev,
                                                  input |-> Unwrap(HatInput(item.ev))])]
              ELSE [st EXCEPT !.send_failed = TRUE]
    ELSE st

\* One pass of the thread's loop over one result of fetch_events(): Err is
\* logged and slept on; a mapped press is sent and a failed send ends the
\* thread; a hat movement is sent and the result of the send is dropped.
ReaderHandle(st, item, alive) ==
    IF st.pc # "loop" THEN st
    ELSE IF ~item.ok THEN st
    ELSE IF IsSome(ButtonInput(item.ev))
         THEN IF alive
              THEN [st EXCEPT !.sent = Append(@, [ev |-> item.ev,
                                                  input |-> Unwrap(ButtonInput(item.ev))])]
              ELSE [st EXCEPT !.pc = "exited", !.send_failed = TRUE]
    ELSE IF IsSome(HatInput(item.ev))
         THEN IF alive
              THEN [st EXCEPT !.sent = Append(@, [ev |-> item.ev,
                                                  input |-> Unwrap(HatInput(item.ev))])]
              ELSE [st EXCEPT !.send_failed = TRUE]
    ELSE st

\* The loop over the fetches; the Receiver lives through the first alive_for.
RECURSIVE ReaderLoop(_, _, _, _)
ReaderLoop(st, fetches, i, alive_for) ==
    IF i > Len(fetches) THEN st
    ELSE ReaderLoop(ReaderHandle(st, fetches[i], i <= alive_for), fetches, i + 1, alive_for)

\* The thread of spawn_controller_reader after the given fetches.
spawn_controller_reader(found, opens, fetches, alive_for) ==
    IF ~found THEN ReaderExited
    ELSE IF ~opens THEN ReaderExited
    ELSE ReaderLoop(ReaderAtLoop, fetches, 1, alive_for)

\* The events the observed runs fetch.
FetchedEvents ==
    { [kind |-> "Key", code |-> "BTN_DPAD_DOWN", value |-> 1],
      [kind |-> "Key", code |-> "BTN_DPAD_DOWN", value |-> 0],
      [kind |-> "Key", code |-> "BTN_SOUTH", value |-> 2],
      [kind |-> "Key", code |-> "BTN_EAST", value |-> 1],
      [kind |-> "Key", code |-> "BTN_NORTH", value |-> 1],
      [kind |-> "AbsAxis", code |-> "ABS_HAT0Y", value |-> -1],
      [kind |-> "AbsAxis", code |-> "ABS_HAT0Y", value |-> 0],
      [kind |-> "AbsAxis", code |-> "ABS_X", value |-> 1] }

FetchResults == {FetchErr} \cup {Fetched(ev) : ev \in FetchedEvents}

ReaderRuns ==
    { [phase |-> "spawned", found |-> f[1], opens |-> f[2], fetches |-> q, alive_for |-> a,
       out |-> ReaderExited] :
        f \in {<<FALSE, FALSE>>, <<TRUE, FALSE>>, <<TRUE, TRUE>>},
        q \in SeqsUpTo(FetchResults, MaxFetches),
        a \in {0, 1, MaxFetches} }

NoRdr == [phase |-> "off"]

\* spawn_controller_reader(tx), observed after its fetches.
ObserveReader ==
    /\ rdr.phase = "spawned"
    /\ rdr' = [rdr EXCEPT !.phase = "observed",
                          !.out = spawn_controller_reader(rdr.found, rdr.opens, rdr.fetches,
                                                          rdr.alive_for)]
    /\ UNCHANGED <<tuiVars, det, cat>>

\* ------------------------------------------------------------------ run_tui_launcher
\* Returning from run_tui_launcher drops the Receiver and what it buffers.
Return(r) ==
    /\ pc' = "returned"
    /\ result' = r
    /\ rxAlive' = FALSE
    /\ chan' = <<>>

\* detect_displays()?, then the branch on a single display.
DetectDisplays ==
    /\ pc = "detect"
    /\ \/ /\ Return("detect_displays")
          /\ UNCHANGED displays
       \/ \E n \in 0..MaxDisplays :
            /\ displays' = DisplayList(n)
            /\ pc' = IF n = 1 THEN "single" ELSE "enable_raw"
            /\ UNCHANGED <<result, rxAlive, chan>>
    /\ UNCHANGED <<app, rawMode, altScreen, rawReleases, altReleases, readerPc, sendFailed,
                   launched, pre, mid, ctrlEv, keyIn, run, det, cat, rdr>>

\* A single display that is sent through the selection screen all the same.
LaunchSingleThroughTui ==
    /\ pc = "single"
    /\ pc' = "enable_raw"
    /\ UNCHANGED <<result, displays, app, rawMode, altScreen, rawReleases, altReleases,
                   chan, rxAlive, readerPc, sendFailed, launched, pre, mid, ctrlEv, keyIn,
                   run, det, cat, rdr>>

\* The only display is launched without the selection screen.
LaunchSingle ==
    /\ pc = "single"
    /\ launched' = Append(launched, displays[1])
    /\ \E ok \in BOOLEAN : Return(IF ok THEN "ok" ELSE "launch_with_display")
    /\ UNCHANGED <<displays, app, rawMode, altScreen, rawReleases, altReleases, readerPc,
                   sendFailed, pre, mid, ctrlEv, keyIn, run, det, cat, rdr>>

\* enable_raw_mode()?
EnableRawMode ==
    /\ pc = "enable_raw"
    /\ \/ /\ rawMode' = TRUE
          /\ pc' = "enter_alt"
          /\ UNCHANGED <<result, rxAlive, chan>>
       \/ /\ Return("enable_raw_mode")
          /\ UNCHANGED rawMode
    /\ UNCHANGED <<displays, app, altScreen, rawReleases, altReleases, readerPc, sendFailed,
                   launched, pre, mid, ctrlEv, keyIn, run, det, cat, rdr>>

\* stdout.execute(EnterAlternateScreen)?
EnterAlternateScreen ==
    /\ pc = "enter_alt"
    /\ \/ /\ altScreen' = TRUE
          /\ pc' = "new_terminal"
          /\ UNCHANGED <<result, rxAlive, chan>>
       \/ /\ Return("EnterAlternateScreen")
          /\ UNCHANGED altScreen
    /\ UNCHANGED <<displays, app, rawMode, rawReleases, altReleases, readerPc, sendFailed,
                   launched, pre, mid, ctrlEv, keyIn, run, det, cat, rdr>>

\* Terminal::new(backend)?, TuiApp::new, mpsc::channel, spawn_controller_reader.
StartSession ==
    /\ pc = "new_terminal"
    /\ \/ /\ app' = TuiApp_new(displays)
          /\ pre' = TuiApp_new(displays)
          /\ mid' = TuiApp_new(displays)
          /\ rxAlive' = TRUE
          /\ readerPc' = "scan"
          /\ pc' = "loop"
          /\ UNCHANGED <<result, chan>>
       \/ /\ Return("Terminal::new")
          /\ UNCHANGED <<app, pre, mid, readerPc>>
    /\ UNCHANGED <<displays, rawMode, altScreen, rawReleases, altReleases, sendFailed,
                   launched, ctrlEv, keyIn, run, det, cat, rdr>>

\* terminal.draw(..)? fails: the error leaves the function at once.
LoopDrawErr ==
    /\ pc = "loop"
    /\ Return("terminal.draw")
    /\ pre' = app
    /\ mid' = app
    /\ ctrlEv' = None
    /\ keyIn' = NoKey
    /\ run' = NoRun
    /\ UNCHANGED <<displays, app, rawMode, altScreen, rawReleases, altReleases, readerPc,
                   sendFailed, launched, det, cat, rdr>>

\* An iteration in which event::poll(..)? or event::read()? fails: the
\* controller event, if any, has been applied; the error leaves the function.
LoopKeyboardErr ==
    /\ pc = "loop"
    /\ LET c == Received(chan, readerPc = "exited") IN
        /\ pre' = app
        /\ ctrlEv' = c
        /\ mid' = ApplyOpt(app, displays, c)
        /\ app' = ApplyOpt(app, displays, c)
        /\ run' = NoRun
    /\ keyIn' = NoKey
    /\ \E e \in {"event::poll", "event::read"} : Return(e)
    /\ UNCHANGED <<displays, rawMode, altScreen, rawReleases, altReleases, readerPc,
                   sendFailed, launched, det, cat, rdr>>

\* A whole iteration: draw, at most one controller event, at most one keyboard
\* event, then the test of should_quit.
LoopIteration ==
    /\ pc = "loop"
    /\ \E k \in KeyInputs :
        LET c == Received(chan, readerPc = "exited") IN
        /\ pre' = app
        /\ ctrlEv' = c
        /\ keyIn' = k
        /\ mid' = ApplyOpt(app, displays, c)
        /\ app' = HandleInput(app, displays, c, k)
        /\ chan' = IF IsSome(c) THEN Tail(chan) ELSE chan
        /\ run' = RunStep(RunStep(run, displays, c, app), displays, KeyEvent(k),
                          ApplyOpt(app, displays, c))
        /\ pc' = IF HandleInput(app, displays, c, k).should_quit THEN "restore_raw" ELSE "loop"
    /\ UNCHANGED <<result, displays, rawMode, altScreen, rawReleases, altReleases, rxAlive,
                   readerPc, sendFailed, launched, det, cat, rdr>>

\* disable_raw_mode()?
DisableRawMode ==
    /\ pc = "restore_raw"
    /\ \/ /\ rawMode' = FALSE
          /\ rawReleases' = rawReleases + 1
          /\ pc' = "restore_alt"
          /\ UNCHANGED <<result, rxAlive, chan>>
       \/ /\ Return("disable_raw_mode")
          /\ UNCHANGED <<rawMode, rawReleases>>
    /\ UNCHANGED <<displays, app, altScreen, altReleases, readerPc, sendFailed, launched,
                   pre, mid, ctrlEv, keyIn, run, det, cat, rdr>>

\* terminal.backend_mut().execute(LeaveAlternateScreen)?
LeaveAlternateScreen ==
    /\ pc = "restore_alt"
    /\ \/ /\ altScreen' = FALSE
          /\ altReleases' = altReleases + 1
          /\ pc' = "launch"
          /\ UNCHANGED <<result, rxAlive, chan>>
       \/ /\ Return("LeaveAlternateScreen")
          /\ UNCHANGED <<altScreen, altReleases>>
    /\ UNCHANGED <<displays, app, rawMode, rawReleases, readerPc, sendFailed, launched,
                   pre, mid, ctrlEv, keyIn, run, det, cat, rdr>>

\* if let Some(display) = app.selected_display { launch_with_display(..)? }; Ok(())
Launch ==
    /\ pc = "launch"
    /\ IF IsSome(app.selected_display)
       THEN /\ launched' = Append(launched, Unwrap(app.selected_display))
            /\ \E ok \in BOOLEAN : Return(IF ok THEN "ok" ELSE "launch_with_display")
       ELSE /\ UNCHANGED launched
            /\ Return("ok")
    /\ UNCHANGED <<displays, app, rawMode, altScreen, rawReleases, altReleases, readerPc,
                   sendFailed, pre, mid, ctrlEv, keyIn, run, det, cat, rdr>>

\* ------------------------------------------------------------------ specification
TuiInit ==
    /\ pc = "detect"
    /\ result = "none"
    /\ displays = <<>>
    /\ app = NoApp
    /\ rawMode = FALSE
    /\ altScreen = FALSE
    /\ rawReleases = 0
    /\ altReleases = 0
    /\ chan = <<>>
    /\ rxAlive = FALSE
    /\ readerPc = "none"
    /\ sendFailed = FALSE
    /\ launched = <<>>
    /\ pre = NoApp
    /\ mid = NoApp
    /\ ctrlEv = None
    /\ keyIn = NoKey
    /\ run = NoRun

Init ==
    /\ TuiInit
    /\ det = NoDet
    /\ cat = NoCat
    /\ rdr = NoRdr

Next ==
    \/ DetectDisplays
    \/ LaunchSingle
    \/ EnableRawMode
    \/ EnterAlternateScreen
    \/ StartSession
    \/ LoopDrawErr
    \/ LoopKeyboardErr
    \/ LoopIteration
    \/ DisableRawMode
    \/ LeaveAlternateScreen
    \/ Launch
    \/ ReaderScan
    \/ ReaderOpen
    \/ ReaderFetchErr
    \/ ReaderButton
    \/ ReaderAxis
    \/ ReaderOther

Spec == Init /\ [][Next]_vars

\* One capability detection: the inputs are drawn in the initial state.
InitCaps ==
    /\ TuiInit
    /\ det \in [phase : {"args"}, display : {[connector_name |-> 1, width |-> w] : w \in Widths},
                args : ArgsInputs, env_fps : EnvFps, edid : EdidInputs, out : {Err}]
    /\ cat = NoCat
    /\ rdr = NoRdr

NextCaps ==
    \/ ApplySunshineEnvFallbacks
    \/ DetectCapabilities

\* The selection loop keeps running: every iteration ends, the keyboard poll
\* returning within its 50 ms timeout.
LoopStep == LoopIteration \/ LoopDrawErr \/ LoopKeyboardErr

SpecLive == Init /\ [][Next]_vars /\ WF_vars(LoopStep)

SpecCaps == InitCaps /\ [][NextCaps]_vars

\* One display enumeration: the device tree is drawn in the initial state.
InitEnum ==
    /\ TuiInit
    /\ det = NoDet
    /\ cat \in [phase : {"scan"}, tree : Trees, out : {Err}]
    /\ rdr = NoRdr

NextEnum == EnumerateDisplays

SpecEnum == InitEnum /\ [][NextEnum]_vars

\* One run of the reader thread: what it fetches is drawn in the initial state.
InitReader ==
    /\ TuiInit
    /\ det = NoDet
    /\ cat = NoCat
    /\ rdr \in ReaderRuns

NextReader == ObserveReader

SpecReader == InitReader /\ [][NextReader]_vars

\* ------------------------------------------------------------------ properties
\* TuiApp::new has run: the selection session exists.
SessionStarted == readerPc # "none"

\* Number of displays, and the highlighted index of a TuiApp value.
N == Len(displays)
Idx(a) == Unwrap(a.list_state)

\* The key event of the last iteration, as an InputEvent.
keyEv == KeyEvent(keyIn)

\* A Cancel event was applied in the last iteration.
CancelApplied == ctrlEv = Some("Quit") \/ keyEv = Some("Quit")

\* The errors that leave the function from inside the loop.
LoopErrors == {"terminal.draw", "event::poll", "event::read"}

\* C1: when rendering, keyboard polling or keyboard reading fails inside the
\* loop, raw mode is disabled and the alternate screen is left before the
\* error is returned.
TerminalReleasedOnLoopError ==
    (pc = "returned" /\ result \in LoopErrors) => (~rawMode /\ ~altScreen)

\* C2: when the loop ends with a chosen display or a cancellation, raw mode and
\* the alternate screen are each released exactly once, before a launch starts
\* and before the function returns.
ReleasedOnceOnNormalExit ==
    /\ (pc = "returned" /\ app.should_quit /\ result \notin LoopErrors)
            => (rawReleases = 1 /\ altReleases = 1 /\ ~rawMode /\ ~altScreen)
    /\ (SessionStarted /\ launched # <<>>)
            => (rawReleases = 1 /\ altReleases = 1 /\ ~rawMode /\ ~altScreen)

\* The same with both release calls succeeding: the part of C2 the code keeps.
ReleasedOnceWhenReleaseSucceeds ==
    /\ rawReleases <= 1 /\ altReleases <= 1
    /\ (pc \in {"launch", "returned"} /\ app.should_quit
        /\ result \notin LoopErrors \cup {"disable_raw_mode", "LeaveAlternateScreen"})
            => (rawReleases = 1 /\ altReleases = 1 /\ ~rawMode /\ ~altScreen)
    /\ (SessionStarted /\ launched # <<>>)
            => (rawReleases = 1 /\ altReleases = 1 /\ ~rawMode /\ ~altScreen)

\* C3: once a Cancel event has been applied the loop ends, no display is
\* chosen and nothing is launched, whatever else the iteration applied.
CancelMakesCancelled ==
    CancelApplied => (pc # "loop" /\ app.selected_display = None /\ launched = <<>>)

\* C4: the highlighted index is within 0 .. len-1 for a non-empty list and
\* absent for an empty one, in every state of the session.
IndexInRange ==
    SessionStarted =>
        \A a \in {pre, mid, app} :
            IF N = 0 THEN a.list_state = None
            ELSE IsSome(a.list_state) /\ Idx(a) >= 0 /\ Idx(a) < N

\* A move wrapped around the end of the list.
IndexWrapped ==
    /\ SessionStarted /\ N >= 2
    /\ pre.list_state = Some(N - 1) /\ ctrlEv = Some("Down") /\ mid.list_state = Some(0)
    /\ keyEv = Some("Up") /\ app.list_state = Some(N - 1)

\* C5: from index 0, N MoveDown events in a row, or N MoveUp events in a row,
\* lead back to index 0, and every single move changes the index by +1
\* (MoveDown) or -1 (MoveUp) modulo N.
WraparoundClosure ==
    (SessionStarted /\ N > 0) =>
        /\ run.n = N => app.list_state = Some(0)
        /\ ctrlEv = Some("Down") => mid.list_state = Some((Idx(pre) + 1) % N)
        /\ ctrlEv = Some("Up")   => mid.list_state = Some((Idx(pre) + N - 1) % N)
        /\ keyEv = Some("Down")  => app.list_state = Some((Idx(mid) + 1) % N)
        /\ keyEv = Some("Up")    => app.list_state = Some((Idx(mid) + N - 1) % N)

\* N equal moves in a row from index 0 have been applied, N at least 3.
FullCircleDone == SessionStarted /\ N >= 3 /\ run.n = N /\ run.dir = "Down"

\* C6: Confirm applied while the session is Pending with index i chooses
\* exactly outputs[i] and ends the loop; what is launched is that display.
ConfirmChoosesHighlighted ==
    SessionStarted =>
        /\ (ctrlEv = Some("Select") /\ ~pre.should_quit /\ IsSome(pre.list_state))
                => (mid.selected_display = Some(displays[Idx(pre) + 1]) /\ mid.should_quit)
        /\ (keyEv = Some("Select") /\ ~mid.should_quit /\ IsSome(mid.list_state))
                => /\ app.selected_display = Some(displays[Idx(mid) + 1])
                   /\ app.should_quit
                   /\ pc # "loop"
        /\ launched # <<>> => Some(launched[1]) = app.selected_display

\* A keyboard Confirm chose the last display of a list of three or more.
ConfirmedLast ==
    /\ SessionStarted /\ N >= 3
    /\ keyEv = Some("Select") /\ ~mid.should_quit /\ mid.list_state = Some(N - 1)
    /\ launched = <<displays[N]>>

ControllerBeforeKeyboard ==
    (SessionStarted /\ N > 0 /\ IsSome(ctrlEv) /\ IsSome(keyEv)) =>
        /\ (ctrlEv = Some("Down") /\ keyEv = Some("Up")) => app = pre
        /\ (ctrlEv = Some("Select") /\ keyEv = Some("Up")) =>
                /\ app.selected_display = Some(displays[Idx(pre) + 1])
                /\ app.list_state = Some((Idx(pre) + N - 1) % N)
        /\ (ctrlEv = Some("Down") /\ keyEv = Some("Select")) =>
                app.selected_display = Some(displays[((Idx(pre) + 1) % N) + 1])

\* A controller MoveDown and a keyboard MoveUp met in one iteration.
DownThenUpSameIteration ==
    /\ SessionStarted /\ N >= 2 /\ pc = "loop"
    /\ ctrlEv = Some("Down") /\ keyEv = Some("Up")
    /\ pre.list_state = Some(N - 1) /\ mid.list_state = Some(0)

\* C9: after a send of the reader thread has failed, the thread has ended.
ReaderExitsAfterFailedSend == sendFailed => readerPc = "exited"

\* C10: outside safe mode a given refresh-rate override is the maxRefresh that
\* capability detection returns, whatever the state of the EDID.
RefreshOverrideWins ==
    (det.phase = "done" /\ ~det.args.safe_mode /\ IsSome(det.args.refresh_rate)
     /\ det.out.ok)
        => det.out.val.max_refresh_rate = Unwrap(det.args.refresh_rate)

\* The same when the EDID file holds data: the part of C10 the code keeps.
RefreshOverrideWinsWithEdidData ==
    (det.phase = "done" /\ ~det.args.safe_mode /\ IsSome(det.args.refresh_rate)
     /\ det.edid.file = "data")
        => (det.out.ok /\ det.out.val.max_refresh_rate = Unwrap(det.args.refresh_rate))

\* ------------------------------------------------------------------ detection properties
\* A detection outside safe mode has finished on decoded EDID text.
Decoded ==
    /\ det.phase = "done" /\ ~det.args.safe_mode
    /\ det.edid.file = "data" /\ det.edid.decoder = "ran"

\* Every Hz reading of a text: the values of the pattern's matches that parse.
RECURSIVE Readings(_, _)
Readings(t, i) ==
    IF i > Len(t) THEN {}
    ELSE IF MatchEnd(t, i) = 0 THEN Readings(t, i + 1)
    ELSE LET rate == ParseU32(SubSeq(t, i, DigitsEnd(t, i) - 1))
         IN (IF IsSome(rate) THEN {Unwrap(rate)} ELSE {}) \cup Readings(t, MatchEnd(t, i))

\* The readings strictly above 60 and at most 500.
Qualifying(t) == {r \in Readings(t, 1) : r > 60 /\ r <= 500}

GeometryRefresh(w) == IF w >= 2560 THEN 144 ELSE 60

HasVrrMarker(t) == \E i \in 1..Len(t) : t[i] \in VrrPatterns
HasHdrMarker(t) == \E i \in 1..Len(t) : t[i] \in HdrPatterns
Has12BitMarker(t) ==
    \E i \in 1..Len(t) : t[i] \in {"12 bits per", "Bits per primary color channel: 12"}
Has10BitMarker(t) ==
    \E i \in 1..Len(t) : t[i] \in {"10 bits per", "Bits per primary color channel: 10"}

\* C11: on decoded text, vrr and hdr are true with the force flag set (also
\* with the disable flag set too), false with only the disable flag set, and
\* the inferred value with neither.
OverridePrecedence ==
    Decoded =>
        /\ det.out.ok
        /\ det.args.force_vrr => det.out.val.vrr = TRUE
        /\ (~det.args.force_vrr /\ det.args.no_vrr) => det.out.val.vrr = FALSE
        /\ (~det.args.force_vrr /\ ~det.args.no_vrr)
                => det.out.val.vrr = HasVrrMarker(det.edid.text)
        /\ det.args.force_hdr => det.out.val.hdr = TRUE
        /\ (~det.args.force_hdr /\ det.args.no_hdr) => det.out.val.hdr = FALSE
        /\ (~det.args.force_hdr /\ ~det.args.no_hdr)
                => det.out.val.hdr = HasHdrMarker(det.edid.text)

\* Force and disable flags both set on a text without markers: both fields on.
ForceBeatsDisable ==
    /\ Decoded
    /\ det.args.force_vrr /\ det.args.no_vrr /\ det.args.force_hdr /\ det.args.no_hdr
    /\ ~HasVrrMarker(det.edid.text) /\ ~HasHdrMarker(det.edid.text)
    /\ det.out.val.vrr /\ det.out.val.hdr

\* C12: with safe mode set the detection returns vrr=false, hdr=false,
\* maxRefresh=60, maxBpc=8 for every EDID input and every geometry.
SafeModeFixed ==
    (det.phase = "done" /\ det.args.safe_mode) =>
        det.out = Ok([vrr |-> FALSE, hdr |-> FALSE, max_refresh_rate |-> 60, max_bpc |-> 8])

\* Safe mode on a wide display whose text and flags ask for everything.
SafeModeOnRichDisplay ==
    /\ det.phase = "done" /\ det.args.safe_mode
    /\ det.display.width = 3840 /\ det.edid.file = "data" /\ det.edid.decoder = "ran"
    /\ Has12BitMarker(det.edid.text) /\ HasHdrMarker(det.edid.text)
    /\ det.args.force_vrr /\ det.args.refresh_rate = Some(120)
    /\ det.out.val.max_refresh_rate = 60

\* C13: decoded text without a reading above 60 and at most 500 gives the
\* geometry default: 144 for a width of 2560 or more, else 60.
NoReadingFallsBackToGeometry ==
    (Decoded /\ det.args.refresh_rate = None /\ Qualifying(det.edid.text) = {})
        => det.out.val.max_refresh_rate = GeometryRefresh(det.display.width)

\* What the code does there: the result is 60 whatever the width.
NoReadingGivesSixty ==
    (Decoded /\ det.args.refresh_rate = None /\ Qualifying(det.edid.text) = {})
        => det.out.val.max_refresh_rate = 60

\* C14: a decoder that cannot be started, or that runs and fails without
\* output, is no error and gives vrr=false, hdr=false, maxBpc=8 and the
\* geometry default of maxRefresh (no user override given).
DecoderFailureGivesDefaults ==
    (/\ det.phase = "done" /\ ~det.args.safe_mode /\ det.edid.file = "data"
     /\ \/ det.edid.decoder = "failed"
        \/ det.edid.status = "nonzero" /\ det.edid.text = <<>>
     /\ ~det.args.force_vrr /\ ~det.args.force_hdr /\ det.args.refresh_rate = None)
        => det.out = Ok([vrr |-> FALSE, hdr |-> FALSE,
                         max_refresh_rate |-> GeometryRefresh(det.display.width),
                         max_bpc |-> 8])

\* The same for a decoder that could not be started: the part the code keeps.
DecoderNotStartedGivesDefaults ==
    (/\ det.phase = "done" /\ ~det.args.safe_mode /\ det.edid.file = "data"
     /\ det.edid.decoder = "failed"
     /\ ~det.args.force_vrr /\ ~det.args.force_hdr /\ det.args.refresh_rate = None)
        => det.out = Ok([vrr |-> FALSE, hdr |-> FALSE,
                         max_refresh_rate |-> GeometryRefresh(det.display.width),
                         max_bpc |-> 8])

Largest(S) == CHOOSE m \in S : \A r \in S : r <= m

\* C16: the inferred maxRefresh is the largest reading above 60 and at most
\* 500; readings above 500 change nothing, so 144 together with 1200 gives
\* 144 in either order.
RefreshIsLargestQualifying ==
    (Decoded /\ det.args.refresh_rate = None /\ Qualifying(det.edid.text) # {}) =>
        /\ det.out.val.max_refresh_rate = Largest(Qualifying(det.edid.text))
        /\ ({144, 1200} \subseteq Readings(det.edid.text, 1)
            /\ Readings(det.edid.text, 1) \subseteq {144, 1200})
                => det.out.val.max_refresh_rate = 144

\* A text read 1200 Hz first and 144 Hz after it.
CeilingDiscards1200 ==
    /\ Decoded /\ det.args.refresh_rate = None
    /\ det.edid.text = <<"1", "2", "0", "0", "H", "z", " ", "1", "4", "4", "H", "z">>
    /\ det.out.val.max_refresh_rate = 144

\* C17: every Capabilities record the detection returns has a positive
\* maxRefresh and a maxBpc of 8, 10 or 12.
CapabilitiesWellFormed ==
    (det.phase = "done" /\ det.out.ok) =>
        (det.out.val.max_refresh_rate > 0 /\ det.out.val.max_bpc \in {8, 10, 12})

\* The same without a refresh-rate override of 0: the part the code keeps.
CapabilitiesWellFormedUnlessZero ==
    (det.phase = "done" /\ det.out.ok /\ det.args.refresh_rate # Some(0)) =>
        (det.out.val.max_refresh_rate > 0 /\ det.out.val.max_bpc \in {8, 10, 12})

\* C18: maxBpc is 12 when a 12-bit marker is present (a 10-bit marker or
\* not), 10 when only a 10-bit marker is, and 8 otherwise.
BpcInference ==
    Decoded =>
        det.out.val.max_bpc =
            IF Has12BitMarker(det.edid.text) THEN 12
            ELSE IF Has10BitMarker(det.edid.text) THEN 10
            ELSE 8

\* A text with both a 12-bit and a 10-bit marker was read as 12.
TwelveBeatsTen ==
    /\ Decoded
    /\ Has12BitMarker(det.edid.text) /\ Has10BitMarker(det.edid.text)
    /\ det.out.val.max_bpc = 12

\* ------------------------------------------------------------------ bypass and enumeration
\* C19: with exactly one display the selection is bypassed: the terminal is
\* never in raw mode or on the alternate screen, no reader thread and no
\* TuiApp exist, and the display launched is the sole one.
SingleDisplayBypass ==
    N = 1 =>
        /\ ~rawMode /\ ~altScreen /\ rawReleases = 0 /\ altReleases = 0
        /\ readerPc = "none" /\ ~rxAlive /\ chan = <<>> /\ app = NoApp
        /\ launched \in {<<>>, <<displays[1]>>}
        /\ pc \in {"single", "returned"}
        /\ pc = "returned" => launched = <<displays[1]>>

\* The sole display has been launched.
SoleDisplayLaunched ==
    N = 1 /\ pc = "returned" /\ result = "ok" /\ launched = <<displays[1]>>

\* A directory entry that yields a display: a connector directory whose status
\* reads "connected" and whose mode list has a well-formed first line.
Usable(e) ==
    /\ e.entry_ok /\ IsConnectorName(e.name)
    /\ e.status.state = "read" /\ Trim(e.status.text) = <<"connected">>
    /\ e.modes.state = "read" /\ e.modes.lines # <<>>
    /\ parse_resolution(e.modes.lines[1]).ok

\* A connector that cannot be read or parsed.
Broken(e) ==
    \/ ~e.entry_ok
    \/ /\ IsConnectorName(e.name)
       /\ \/ e.status.state = "unreadable"
          \/ /\ e.status.state = "read" /\ Trim(e.status.text) = <<"connected">>
             /\ \/ e.modes.state = "unreadable"
                \/ e.modes.state = "read" /\ e.modes.lines # <<>>
                   /\ ~parse_resolution(e.modes.lines[1]).ok

RECURSIVE UsableNames(_)
UsableNames(entries) ==
    IF entries = <<>> THEN <<>>
    ELSE (IF Usable(Head(entries)) THEN <<Head(entries).name>> ELSE <<>>)
         \o UsableNames(Tail(entries))

\* C20: the enumeration fails only on an unreadable root; a connector whose
\* status or modes cannot be read or whose first mode line is malformed is
\* skipped, and the usable connectors are returned in order.
EnumerationSkipsBrokenConnectors ==
    cat.phase = "done" =>
        /\ cat.out.ok <=> cat.tree.root_ok
        /\ cat.out.ok =>
            [i \in 1..Len(cat.out.val) |-> cat.out.val[i].connector_name]
                = UsableNames(cat.tree.entries)

\* What the code does: it returns the usable connectors when the root is
\* readable and no entry is broken, and fails otherwise.
EnumerationFailsOnBrokenConnector ==
    cat.phase = "done" =>
        /\ cat.out.ok <=>
            (cat.tree.root_ok
             /\ \A i \in 1..Len(cat.tree.entries) : ~Broken(cat.tree.entries[i]))
        /\ cat.out.ok =>
            [i \in 1..Len(cat.out.val) |-> cat.out.val[i].connector_name]
                = UsableNames(cat.tree.entries)

\* ------------------------------------------------------------------ session outcomes
\* The loop has ended by its break, not by an error inside it.
LoopEnded ==
    SessionStarted /\ pc \in {"restore_raw", "restore_alt", "launch", "returned"}
    /\ result \notin LoopErrors

\* The session ended Cancelled: the loop ended and no display is chosen.
EndedCancelled == LoopEnded /\ app.should_quit /\ app.selected_display = None

\* The session ended Chosen: the loop ended with a chosen display.
EndedChosen == LoopEnded /\ app.should_quit /\ IsSome(app.selected_display)

\* The errors of the two calls that restore the terminal.
ReleaseErrors == {"disable_raw_mode", "LeaveAlternateScreen"}

\* C21: when the session ends Cancelled, run_tui_launcher returns success and
\* no display is handed to capability detection or launched.
CancelledReturnsOk ==
    (EndedCancelled /\ pc = "returned") => (result = "ok" /\ launched = <<>>)

\* The part of C21 the code keeps: a Cancelled session launches nothing, and it
\* returns success when both calls that restore the terminal succeed.
CancelledLaunchesNothing ==
    EndedCancelled =>
        /\ launched = <<>>
        /\ (pc = "returned" /\ result \notin ReleaseErrors) => result = "ok"

\* render_tui shows "No connected displays found. Press any key to exit."
ShowsNoDisplaysMessage == SessionStarted /\ N = 0

\* A key was pressed in the last iteration.
KeyPressed == keyIn.event = "Key" /\ keyIn.kind = "Press"

\* C22: while the message for an empty list is shown, pressing any key ends
\* the session.
AnyKeyEndsEmptySession ==
    (ShowsNoDisplaysMessage /\ KeyPressed) => (pc # "loop" /\ app.should_quit)

\* What the code does on an empty list: Esc and q end the session, and no
\* other key does.
OnlyCancelKeyEndsEmptySession ==
    (ShowsNoDisplaysMessage /\ KeyPressed /\ ctrlEv # Some("Quit")) =>
        (app.should_quit <=> keyIn.code \in {"Esc", "q"})

\* ------------------------------------------------------------------ reader thread properties
\* A press: a button event with value 1, or the vertical hat off its centre.
IsPress(ev) ==
    \/ ev.kind = "Key" /\ ev.value = 1
    \/ ev.kind = "AbsAxis" /\ ev.code = "ABS_HAT0Y" /\ ev.value # 0

\* The presses among the fetched events, in order.
RECURSIVE PressesOf(_)
PressesOf(fetches) ==
    IF fetches = <<>> THEN <<>>
    ELSE (IF Head(fetches).ok /\ IsPress(Head(fetches).ev) THEN <<Head(fetches).ev>> ELSE <<>>)
         \o PressesOf(Tail(fetches))

\* The events the thread has forwarded, in order.
Forwarded == [i \in 1..Len(rdr.out.sent) |-> rdr.out.sent[i].ev]

\* The observed thread reached its loop and the Receiver outlived the fetches.
ReaderRanAlive ==
    /\ rdr.phase = "observed" /\ rdr.found /\ rdr.opens
    /\ rdr.alive_for >= Len(rdr.fetches)

\* C23: the reader forwards press transitions only: every forwarded event is a
\* button event with value 1 or a hat event off the neutral value; releases,
\* auto-repeats and a hat returning to neutral produce no InputEvent.
ForwardsOnlyPresses ==
    rdr.phase = "observed" =>
        /\ \A i \in 1..Len(Forwarded) : IsPress(Forwarded[i])
        /\ Len(Forwarded) <= Len(PressesOf(rdr.fetches))
        /\ PressesOf(rdr.fetches) = <<>> => Forwarded = <<>>

\* A release, an auto-repeat and a neutral hat were fetched, nothing was sent.
NonPressesDropped ==
    /\ ReaderRanAlive /\ Len(rdr.fetches) = 3 /\ Forwarded = <<>>
    /\ rdr.fetches[1].ev.value = 0 /\ rdr.fetches[1].ev.kind = "Key"
    /\ rdr.fetches[2].ev.value = 2
    /\ rdr.fetches[3].ev.code = "ABS_HAT0Y" /\ rdr.fetches[3].ok

\* A fetch result the thread answers with a send: a press of a mapped button,
\* or the hat off its centre.
Mapped(ev) == IsPress(ev) /\ ev.code \in {"BTN_DPAD_UP", "BTN_DPAD_DOWN", "BTN_SOUTH",
                                          "BTN_WEST", "BTN_EAST", "ABS_HAT0Y"}

RECURSIVE MappedOf(_)
MappedOf(fetches) ==
    IF fetches = <<>> THEN <<>>
    ELSE (IF Head(fetches).ok /\ Mapped(Head(fetches).ev) THEN <<Head(fetches).ev>> ELSE <<>>)
         \o MappedOf(Tail(fetches))

\* C26: a failed read does not end the reader thread: after any number of
\* failed reads the thread is in its loop, and the presses of the later reads
\* are forwarded as if no read had failed.
ReadFailureKeepsReader ==
    ReaderRanAlive =>
        /\ rdr.out.pc = "loop"
        /\ ~rdr.out.send_failed
        /\ Forwarded = MappedOf(rdr.fetches)

\* Two failed reads, then a press that is forwarded.
PressAfterFailedReads ==
    /\ ReaderRanAlive /\ Len(rdr.fetches) = 3
    /\ ~rdr.fetches[1].ok /\ ~rdr.fetches[2].ok
    /\ rdr.fetches[3].ok /\ Forwarded = <<rdr.fetches[3].ev>>
    /\ rdr.out.sent[1].input = "Quit"

\* ------------------------------------------------------------------ channel and loop properties
\* The reader thread ended before its loop: no controller, nothing ever sent.
NoController == SessionStarted /\ readerPc = "exited" /\ ~sendFailed

\* C24: without a controller the loop sees an empty channel in every
\* iteration, neither ends nor fails because the sender is gone, and the
\* keyboard alone drives the state to Chosen or Cancelled.
KeyboardOnlyWithoutController ==
    NoController =>
        /\ chan = <<>> /\ ctrlEv = None /\ mid = pre
        /\ app = ApplyOpt(pre, displays, keyEv)
        /\ (pc # "loop" /\ result \notin LoopErrors) => keyEv \in {Some("Select"), Some("Quit")}
        /\ app.should_quit => keyEv \in {Some("Select"), Some("Quit")}

\* Without a controller the keyboard moved to the second display and chose it.
KeyboardChoseWithoutController ==
    /\ NoController /\ N >= 2 /\ pc = "returned" /\ result = "ok"
    /\ keyEv = Some("Select") /\ launched = <<displays[2]>>

\* C25: the channel is a queue while the session is Pending: the reader
\* appends at the end, an iteration takes at most the one event at the head and
\* applies it before at most one key event, and nothing else changes it.
ControllerEventsInOrder ==
    [][pc = "loop" =>
        \/ /\ chan' = chan
           /\ \/ UNCHANGED <<app, pre, mid, ctrlEv, keyIn>>
              \/ chan = <<>> /\ ctrlEv' = None /\ mid' = app
                 /\ app' = ApplyOpt(mid', displays, KeyEvent(keyIn'))
        \/ /\ \E e \in InputEvent : chan' = Append(chan, e)
           /\ UNCHANGED <<app, pre, mid, ctrlEv, keyIn, pc>>
        \/ /\ chan # <<>>
           /\ ctrlEv' = Some(Head(chan))
           /\ mid' = ApplyEvent(app, displays, Head(chan))
           /\ app' = ApplyOpt(mid', displays, KeyEvent(keyIn'))
           /\ chan' = Tail(chan) \/ pc' = "returned"
        \/ pc' = "returned" /\ ctrlEv' = None /\ app' = app
    ]_vars

\* The head of a queue of two was taken and the second event still waits.
HeadTakenSecondWaits ==
    /\ SessionStarted /\ N >= 2 /\ pc = "loop"
    /\ ctrlEv = Some("Down") /\ chan = <<"Up">> /\ mid.list_state = Some(1)

\* The events that end the session.
Terminating == {"Select", "Quit"}

\* C27: with a non-empty list a Cancel or Confirm waiting in the channel leads
\* to the end of the loop; each iteration moves it one place towards the head
\* and applies it at the head, so that with k events ahead it is applied
\* within k+1 iterations; a pressed Cancel or Confirm key ends the loop in its
\* own iteration.
TerminatingEventEndsLoop ==
    /\ ((pc = "loop" /\ N > 0 /\ \E p \in 1..Len(chan) : chan[p] \in Terminating)
            ~> pc # "loop")
    /\ []((SessionStarted /\ N > 0 /\ keyEv \in {Some("Select"), Some("Quit")})
            => pc # "loop")
    /\ [][(LoopIteration /\ N > 0) =>
            \A p \in 1..Len(chan) :
                chan[p] \in Terminating =>
                    IF p = 1 THEN pc' # "loop" /\ ctrlEv' = Some(chan[1])
                    ELSE Len(chan') >= p - 1 /\ chan'[p - 1] = chan[p]]_vars

\* A controller Cancel, taken after an earlier move, has ended the loop.
QueuedCancelEndedLoop ==
    /\ SessionStarted /\ N >= 2 /\ pc = "restore_raw"
    /\ ctrlEv = Some("Quit") /\ keyEv = None
    /\ pre.list_state = Some(1) /\ ~pre.should_quit

\* C28: a display chosen by a controller Confirm stays the chosen one whatever
\* the key event of the same iteration is, the loop ends with it, and no
\* event is taken or applied after that iteration.
ChosenIsFinal ==
    /\ []((SessionStarted /\ IsSome(mid.selected_display))
            => (app.selected_display = mid.selected_display /\ pc # "loop"))
    /\ [][(SessionStarted /\ IsSome(app.selected_display))
            => UNCHANGED <<app, pre, mid, ctrlEv, keyIn>>]_vars

\* A controller Confirm followed by a key move in the same iteration: the
\* first display stays chosen and is the one launched.
ChosenSurvivesMove ==
    /\ SessionStarted /\ N >= 2 /\ pc = "returned"
    /\ ctrlEv = Some("Select") /\ keyEv = Some("Down")
    /\ app.list_state = Some(1) /\ launched = <<displays[1]>>

\* C29: detection and launch are invoked if and only if the loop ended with a
\* chosen display, exactly once, with that display, after the loop has ended.
LaunchIffChosen ==
    SessionStarted =>
        /\ Len(launched) <= 1
        /\ launched # <<>> =>
            (EndedChosen /\ pc = "returned" /\ launched = <<Unwrap(app.selected_display)>>)
        /\ (EndedChosen /\ pc = "returned") => launched # <<>>

\* The part of C29 the code keeps: at most one launch, of the chosen display,
\* after the loop, and always when both calls that restore the terminal succeed.
LaunchOnlyChosen ==
    SessionStarted =>
        /\ Len(launched) <= 1
        /\ launched # <<>> =>
            (EndedChosen /\ pc = "returned" /\ launched = <<Unwrap(app.selected_display)>>)
        /\ (EndedChosen /\ pc = "returned" /\ result \notin ReleaseErrors) => launched # <<>>

\* The key codes the loop answers.
RecognizedKeys == {"Up", "k", "Down", "j", "Enter", "Space", "Esc", "q"}

\* C30: Confirm and Cancel leave the highlighted index alone; moves leave the
\* chosen display and the quit flag alone; an unrecognized key, a key event
\* that is no press, an event that is no key event and an unmapped controller
\* button change nothing; the list of displays never changes.
FrameConditions ==
    /\ [](SessionStarted =>
            /\ ctrlEv \in {Some("Select"), Some("Quit")} => mid.list_state = pre.list_state
            /\ keyEv \in {Some("Select"), Some("Quit")} => app.list_state = mid.list_state
            /\ ctrlEv \in {Some("Up"), Some("Down")} =>
                (mid.selected_display = pre.selected_display
                 /\ mid.should_quit = pre.should_quit)
            /\ keyEv \in {Some("Up"), Some("Down")} =>
                (app.selected_display = mid.selected_display
                 /\ app.should_quit = mid.should_quit)
            /\ (keyIn.event # "Key" \/ keyIn.kind # "Press" \/ keyIn.code \notin RecognizedKeys)
                => app = mid
            /\ ctrlEv = None => mid = pre
            /\ displays = DisplayList(N))
    /\ \A ev \in RawEvents :
         (ev.kind = "Key" /\ ev.code \notin {"BTN_DPAD_UP", "BTN_DPAD_DOWN", "BTN_SOUTH",
                                             "BTN_WEST", "BTN_EAST"})
            => (ButtonInput(ev) = None /\ HatInput(ev) = None)
    /\ [][SessionStarted => displays' = displays]_vars
    /\ [][(ReaderScan \/ ReaderOpen \/ ReaderFetchErr \/ ReaderButton \/ ReaderAxis \/ ReaderOther)
            => UNCHANGED <<app, pre, mid, displays>>]_vars

\* A released Enter key after a controller move changed nothing.
ReleasedKeyChangedNothing ==
    /\ SessionStarted /\ N >= 2 /\ pc = "loop"
    /\ ctrlEv = Some("Down") /\ mid.list_state = Some(1)
    /\ keyIn = [event |-> "Key", kind |-> "Release", code |-> "Enter"]
    /\ app = mid

====
